---- MODULE Spec2Model ----
(***************************************************************************)
(* f3brew: write a self-describing stamp to every block of a range, reset  *)
(* the drive, read the blocks back and classify every sector.              *)
(*                                                                         *)
(* Memory is modelled at the granularity of the 8-byte words the code      *)
(* moves with memmove(): a buffer is a sequence of words, and the byte     *)
(* pointer p of the code addresses word p \div 8 + 1.  uint64_t values are *)
(* kept modulo U64, a scaled-down word width.                              *)
(***************************************************************************)
EXTENDS Integers, Sequences, FiniteSets, TLC

VARIABLES pc, requested, args, dev, store, i, sector_offset, expected_sector_offset,
          stamp_blk, probe_blk, log, out, validated, nfail,
          vpc, vstamp, vsector, vexpected, vcorrupt, vout,
          fpc, fbuf, fsize, foffset, fret, fcalls,
          spc, wait_ms, req, seintr,
          npc, nnum, nname, naccepted, nback,
          lpc, ldir, lstart_at, lend_at, lret, lwritten

vars == <<pc, requested, args, dev, store, i, sector_offset, expected_sector_offset,
          stamp_blk, probe_blk, log, out, validated, nfail,
          vpc, vstamp, vsector, vexpected, vcorrupt, vout,
          fpc, fbuf, fsize, foffset, fret, fcalls,
          spc, wait_ms, req, seintr,
          npc, nnum, nname, naccepted, nback,
          lpc, ldir, lstart_at, lend_at, lret, lwritten>>

mainvars == <<pc, requested, args, dev, store, i, sector_offset, expected_sector_offset,
              stamp_blk, probe_blk, log, out, validated, nfail>>

valvars == <<vpc, vstamp, vsector, vexpected, vcorrupt, vout>>

fillvars == <<fpc, fbuf, fsize, foffset, fret, fcalls>>

sleepvars == <<spc, wait_ms, req, seintr>>

namevars == <<npc, nnum, nname, naccepted, nback>>

lsvars == <<lpc, ldir, lstart_at, lend_at, lret, lwritten>>

\* The state of utils.c and of fill_buffer taken alone.
utilvars == <<fillvars, sleepvars, namevars, lsvars>>

\* fill_buffer is not being followed alone.
FillOff ==
    /\ fpc = "off"
    /\ fbuf = << >>
    /\ fsize = 0
    /\ foffset = 0
    /\ fret = 0
    /\ fcalls = 0

\* msleep is not being followed.
SleepOff ==
    /\ spc = "off"
    /\ wait_ms = 0
    /\ req = [tv_sec |-> 0, tv_nsec |-> 0]
    /\ seintr = 0

\* The file-name functions are not being followed.
NameOff ==
    /\ npc = "off"
    /\ nnum = 0
    /\ nname = << >>
    /\ naccepted = FALSE
    /\ nback = 0

\* ls_my_files is not being followed.
LsOff ==
    /\ lpc = "off"
    /\ ldir = << >>
    /\ lstart_at = 0
    /\ lend_at = 0
    /\ lret = << >>
    /\ lwritten = << >>

UtilOff == FillOff /\ SleepOff /\ NameOff /\ LsOff

(* ---------------------------- bounds ----------------------------------- *)

\* Largest advertised size of the modelled drive, in sectors.
MaxSectors == 4

\* Largest number of device calls that fail in one run.
MaxFailures == 2

\* Number of expected sector offsets given to the validator on its own.
MaxValOffsets == 1

(* ------------------------- program constants --------------------------- *)

\* uint64_t arithmetic is modulo 2^64; the model keeps the low 16 bits.
U64 == 65536

SECTOR_SIZE == 512

\* sizeof(uint64_t): the size of the offset and of every chain word.
WORD_SIZE == 8

TOLERANCE == 2

\* .last_block = -1ULL, the default of main()'s struct args.
DEFAULT_LAST_BLOCK == U64 - 1

RECURSIVE pow2(_)
pow2(n) == IF n = 0 THEN 1 ELSE 2 * pow2(n - 1)

shl(x, n) == (x * pow2(n)) % U64

shr(x, n) == x \div pow2(n)

(* ------------------------ stamp chain generator ------------------------ *)

\* prv_number * 4294967311 + 17 on uint64_t; modulo 2^16 the multiplier
\* 2^32 + 15 is 15.
random_number(prv_number) == (prv_number * 15 + 17) % U64

(* ---------------------------- buffers ---------------------------------- *)

\* The word at byte position p of a buffer.
load(buf, p) == buf[(p \div WORD_SIZE) + 1]

\* memmove(p, &v, sizeof(v))
memmove(buf, p, v) == [buf EXCEPT ![(p \div WORD_SIZE) + 1] = v]

ZeroBuf(size) == [k \in 1..(size \div WORD_SIZE) |-> 0]

(* ---------------------------- fill_buffer ------------------------------ *)

\* The chain loop storing the previous number instead of the new one.
RECURSIVE fill_chain_lag(_, _, _, _)
fill_chain_lag(buf, p, ptr_next_sector, rn) ==
    IF p < ptr_next_sector
    THEN LET rn2 == random_number(rn)
             b == memmove(buf, p, rn)
         IN IF b = b
            THEN fill_chain_lag(b, p + WORD_SIZE, ptr_next_sector, rn2)
            ELSE b
    ELSE buf

\* for (; p < ptr_next_sector; p += sizeof(rn)) { rn = random_number(rn);
\*         memmove(p, &rn, sizeof(rn)); }
\* (The test b = b makes TLC evaluate the buffer before it descends, which
\* keeps its evaluation stack shallow; it is always true.)
RECURSIVE fill_chain(_, _, _, _)
fill_chain(buf, p, ptr_next_sector, rn) ==
    IF p < ptr_next_sector
    THEN LET rn2 == random_number(rn)
             b == memmove(buf, p, rn2)
         IN IF b = b
            THEN fill_chain(b, p + WORD_SIZE, ptr_next_sector, rn2)
            ELSE b
    ELSE buf

\* The sector loop without offset += SECTOR_SIZE.
RECURSIVE fill_sectors_stuck(_, _, _, _)
fill_sectors_stuck(buf, p, ptr_end, offset) ==
    IF p < ptr_end
    THEN LET b1 == memmove(buf, p, offset)
             ptr_next_sector == p + SECTOR_SIZE
             b2 == fill_chain(b1, p + WORD_SIZE, ptr_next_sector, offset)
         IN IF b2 = b2
            THEN fill_sectors_stuck(b2, ptr_next_sector, ptr_end, offset)
            ELSE [buf |-> b2, offset |-> offset]
    ELSE [buf |-> buf, offset |-> offset]

\* while (p < ptr_end) { ... offset += SECTOR_SIZE; }
RECURSIVE fill_sectors(_, _, _, _)
fill_sectors(buf, p, ptr_end, offset) ==
    IF p < ptr_end
    THEN LET b1 == memmove(buf, p, offset)
             ptr_next_sector == p + SECTOR_SIZE
             b2 == fill_chain(b1, p + WORD_SIZE, ptr_next_sector, offset)
         IN IF b2 = b2
            THEN fill_sectors(b2, ptr_next_sector, ptr_end,
                              (offset + SECTOR_SIZE) % U64)
            ELSE [buf |-> b2, offset |-> offset]
    ELSE [buf |-> buf, offset |-> offset]

\* Returns the filled buffer and the offset of the sector after it.
fill_buffer(buf, size, offset) == fill_sectors(buf, 0, size, offset)

(* --------------------------- validate_sector --------------------------- *)

\* The counting loop stopping one mismatch early, at error_count = TOLERANCE.
RECURSIVE count_errors_short(_, _, _, _, _)
count_errors_short(buf, p, ptr_end, rn, error_count) ==
    IF error_count < TOLERANCE /\ p < ptr_end
    THEN LET rn2 == random_number(rn)
         IN count_errors_short(buf, p + WORD_SIZE, ptr_end, rn2,
                               IF rn2 # load(buf, p) THEN error_count + 1
                                                     ELSE error_count)
    ELSE error_count

\* for (; error_count <= TOLERANCE && p < ptr_end; p += sizeof(rn)) { ... }
RECURSIVE count_errors(_, _, _, _, _)
count_errors(buf, p, ptr_end, rn, error_count) ==
    IF error_count <= TOLERANCE /\ p < ptr_end
    THEN LET rn2 == random_number(rn)
         IN count_errors(buf, p + WORD_SIZE, ptr_end, rn2,
                         IF rn2 # load(buf, p) THEN error_count + 1
                                               ELSE error_count)
    ELSE error_count

Line(msg, expected, found) ==
    [msg |-> msg, expected |-> expected, found |-> found]

\* A line that prints the expected offset only.
NoFound == -1

\* The branches with the mismatch count compared to TOLERANCE strictly.
sector_diagnosis_strict(expected_sector_offset_, found, error_count) ==
    IF found = expected_sector_offset_
    THEN IF error_count = 0 THEN "GOOD sector"
         ELSE IF error_count < TOLERANCE THEN "Changed sector"
         ELSE "BAD matching sector"
    ELSE IF error_count = 0 THEN "Overwritten sector"
    ELSE IF error_count < TOLERANCE THEN "Overwritten and changed sector"
    ELSE "BAD sector"

\* The branch validate_sector takes after counting, named after the
\* message of its printf.
sector_diagnosis(expected_sector_offset_, found, error_count) ==
    IF found = expected_sector_offset_
    THEN IF error_count = 0 THEN "GOOD sector"
         ELSE IF error_count <= TOLERANCE THEN "Changed sector"
         ELSE "BAD matching sector"
    ELSE IF error_count = 0 THEN "Overwritten sector"
    ELSE IF error_count <= TOLERANCE THEN "Overwritten and changed sector"
    ELSE "BAD sector"

\* The report with the printf of "Changed sector" commented out as well.
sector_report_quiet(diagnosis, expected_sector_offset_, found) ==
    IF diagnosis \in {"GOOD sector", "BAD sector", "Changed sector"}
    THEN << >>
    ELSE IF diagnosis = "BAD matching sector"
    THEN << Line(diagnosis, expected_sector_offset_, NoFound) >>
    ELSE << Line(diagnosis, expected_sector_offset_, found) >>

\* What the branch prints: the printf of "GOOD sector" and of "BAD sector"
\* are commented out.
sector_report(diagnosis, expected_sector_offset_, found) ==
    IF diagnosis \in {"GOOD sector", "BAD sector"} THEN << >>
    ELSE IF diagnosis \in {"Changed sector", "BAD matching sector"}
    THEN << Line(diagnosis, expected_sector_offset_, NoFound) >>
    ELSE << Line(diagnosis, expected_sector_offset_, found) >>

\* validate_sector re-deriving the chain from the expected offset.
validate_sector_expected(expected_sector_offset_, buf, sector) ==
    LET found == load(buf, sector)
        error_count == count_errors(buf, sector + WORD_SIZE,
                                    sector + SECTOR_SIZE,
                                    expected_sector_offset_, 0)
        diagnosis == sector_diagnosis(expected_sector_offset_, found,
                                      error_count)
    IN [diagnosis |-> diagnosis,
        lines |-> sector_report(diagnosis, expected_sector_offset_, found)]

\* validate_sector on the sector at byte position sector of buf: the branch
\* taken and the lines printed (none or one).
validate_sector(expected_sector_offset_, buf, sector) ==
    LET found == load(buf, sector)
        error_count == count_errors(buf, sector + WORD_SIZE,
                                    sector + SECTOR_SIZE, found, 0)
        diagnosis == sector_diagnosis(expected_sector_offset_, found,
                                      error_count)
    IN [diagnosis |-> diagnosis,
        lines |-> sector_report(diagnosis, expected_sector_offset_, found)]

\* while (sector < stop_sector) { validate_sector(...); ... }
RECURSIVE validate_block_from(_, _, _, _)
validate_block_from(expected_sector_offset_, probe, sector, stop_sector) ==
    IF sector < stop_sector
    THEN validate_sector(expected_sector_offset_, probe, sector).lines
         \o validate_block_from((expected_sector_offset_ + SECTOR_SIZE) % U64,
                                probe, sector + SECTOR_SIZE, stop_sector)
    ELSE << >>

validate_block(expected_sector_offset_, probe, block_size) ==
    validate_block_from(expected_sector_offset_, probe, 0, block_size)

(* ------------------------------ device --------------------------------- *)

dev_get_block_order(d) == d.block_order

dev_get_block_size(d) == pow2(d.block_order)

dev_get_size_byte(d) == d.size_byte

\* The block of the physical store that holds block index blk: any address
\* is stored at address mod real size.
dev_slot(d, blk) ==
    ((blk * dev_get_block_size(d)) % d.real_size_byte)
        \div dev_get_block_size(d)

\* The store after dev_write_block(dev, buf, blk) returned ok.
dev_write_block(d, st, buf, blk, ok) ==
    IF ok THEN [st EXCEPT ![dev_slot(d, blk)] = buf] ELSE st

\* The buffer after dev_read_block(dev, buf, blk) returned ok.
dev_read_block(d, st, buf, blk, ok) ==
    IF ok THEN st[dev_slot(d, blk)] ELSE buf

Call(op, blk, ok) == [op |-> op, blk |-> blk, ok |-> ok]

\* Whether one more device call may fail in this run.
Outcomes == IF nfail < MaxFailures THEN {TRUE, FALSE} ELSE {TRUE}

Failed(ok) == IF ok THEN 0 ELSE 1

(* ------------------------------- main ---------------------------------- *)

BlockOrders == {9, 10}

Geometries ==
    { [block_order |-> o, size_byte |-> n * SECTOR_SIZE,
       real_size_byte |-> r * pow2(o)] :
        o \in BlockOrders, n \in 1..MaxSectors, r \in 1..MaxSectors }

\* The drives create_*_device() can return: at least one whole block, and a
\* real size of whole blocks that does not exceed the advertised size.
ValidGeometries ==
    { g \in Geometries :
        /\ shr(g.size_byte, g.block_order) >= 1
        /\ g.real_size_byte <= g.size_byte }

RequestedBlocks == 0..(MaxSectors + 1) \cup {DEFAULT_LAST_BLOCK}

\* The drive with the largest size a uint64_t holds: no clamp bound is
\* larger than its block count.
LargestDrive ==
    [block_order |-> 9, size_byte |-> U64 - 1, real_size_byte |-> SECTOR_SIZE]

\* The first blocks requested: the low ones, and one next to the end of
\* the largest drive.
RequestedFirstBlocks ==
    0..(MaxSectors + 1)
        \cup {shr(LargestDrive.size_byte, LargestDrive.block_order) - 1}

\* The struct args argp_parse() leaves behind: ARGP_KEY_END rejects
\* first_block > last_block.
ParsedArgs ==
    { a \in [debug : BOOLEAN,
             first_block : RequestedFirstBlocks, last_block : RequestedBlocks,
             test_write : BOOLEAN, test_read : BOOLEAN] :
        a.first_block <= a.last_block }

\* main(): dev = args.debug ? create_block_device(...)
\*                          : create_file_device(...)
created_device(debug) == IF debug THEN "block device" ELSE "file device"

\* The drive main() works on: what it created, with its geometry.
Device(kind, g) ==
    [kind |-> kind, block_order |-> g.block_order,
     size_byte |-> g.size_byte, real_size_byte |-> g.real_size_byte]

\* very_last_block = dev_get_size_byte(dev) >> dev_get_block_order(dev)
very_last_block_of(d) == shr(dev_get_size_byte(d), dev_get_block_order(d))

clamp(block, very_last_block) ==
    IF block > very_last_block THEN very_last_block ELSE block

\* The runs the model follows scan at most MaxSectors + 1 blocks.
ScanFits(a, g) ==
    clamp(a.last_block, very_last_block_of(g))
        - clamp(a.first_block, very_last_block_of(g)) <= MaxSectors

\* The state when argp_parse() and create_*_device() have returned.
Init ==
    /\ pc = "clamp"
    /\ requested \in ParsedArgs
    /\ args = requested
    /\ \E g \in ValidGeometries \cup {LargestDrive} :
         /\ ScanFits(requested, g)
         /\ dev = Device(created_device(requested.debug), g)
    /\ store = [s \in 0..(dev.real_size_byte \div pow2(dev.block_order)) - 1
                  |-> ZeroBuf(pow2(dev.block_order))]
    /\ i = 0
    /\ sector_offset = 0
    /\ expected_sector_offset = 0
    /\ stamp_blk = ZeroBuf(pow2(dev.block_order))
    /\ probe_blk = ZeroBuf(pow2(dev.block_order))
    /\ log = << >>
    /\ out = << >>
    /\ validated = << >>
    /\ nfail = 0
    /\ vpc = "off"
    /\ vstamp = 0
    /\ vsector = << >>
    /\ vexpected = 0
    /\ vcorrupt = {}
    /\ vout = [diagnosis |-> "none", lines |-> << >>]
    /\ UtilOff

\* main() without the reset between the passes.
after_write_no_reset(a) == IF a.test_read THEN "read_begin" ELSE "done"

\* Where main() goes after the write pass.
after_write(a) ==
    IF a.test_write /\ a.test_read THEN "reset"
    ELSE IF a.test_read THEN "read_begin" ELSE "done"

\* main() clamping last_block only.
main_clamp_last_only ==
    /\ pc = "clamp"
    /\ LET very_last_block == very_last_block_of(dev)
           a == [args EXCEPT
                   !.last_block = clamp(args.last_block, very_last_block)]
       IN /\ args' = a
          /\ pc' = IF a.test_write THEN "write_begin" ELSE after_write(a)
    /\ UNCHANGED <<requested, dev, store, i, sector_offset,
                   expected_sector_offset, stamp_blk, probe_blk, log, out,
                   validated, nfail>>
    /\ UNCHANGED <<valvars, utilvars>>

\* main() running the write pass whatever test_write says.
main_clamp_always_write ==
    /\ pc = "clamp"
    /\ LET very_last_block == very_last_block_of(dev)
           a == [args EXCEPT
                   !.first_block = clamp(args.first_block, very_last_block),
                   !.last_block = clamp(args.last_block, very_last_block)]
       IN /\ args' = a
          /\ pc' = "write_begin"
    /\ UNCHANGED <<requested, dev, store, i, sector_offset,
                   expected_sector_offset, stamp_blk, probe_blk, log, out,
                   validated, nfail>>
    /\ UNCHANGED <<valvars, utilvars>>

\* main(): the clamping of the requested range.
main_clamp ==
    /\ pc = "clamp"
    /\ LET very_last_block == very_last_block_of(dev)
           a == [args EXCEPT
                   !.first_block = clamp(args.first_block, very_last_block),
                   !.last_block = clamp(args.last_block, very_last_block)]
       IN /\ args' = a
          /\ pc' = IF a.test_write THEN "write_begin" ELSE after_write(a)
    /\ UNCHANGED <<requested, dev, store, i, sector_offset, expected_sector_offset,
                   stamp_blk, probe_blk, log, out, validated, nfail>>
    /\ UNCHANGED <<valvars, utilvars>>

\* write_blocks() starting one block late.
write_blocks_begin_late ==
    /\ pc = "write_begin"
    /\ sector_offset' = shl(args.first_block + 1, dev_get_block_order(dev))
    /\ i' = args.first_block + 1
    /\ pc' = "write"
    /\ UNCHANGED <<requested, args, dev, store, expected_sector_offset,
                   stamp_blk, probe_blk, log, out, validated, nfail>>
    /\ UNCHANGED <<valvars, utilvars>>

\* write_blocks(): the initialisation of sector_offset and i.
write_blocks_begin ==
    /\ pc = "write_begin"
    /\ sector_offset' = shl(args.first_block, dev_get_block_order(dev))
    /\ i' = args.first_block
    /\ pc' = "write"
    /\ UNCHANGED <<requested, args, dev, store, expected_sector_offset, stamp_blk,
                   probe_blk, log, out, validated, nfail>>
    /\ UNCHANGED <<valvars, utilvars>>

\* write_blocks() dropping the offset fill_buffer returns.
write_blocks_step_unthreaded ==
    /\ pc = "write"
    /\ i <= args.last_block
    /\ \E ok \in Outcomes :
         LET filled == fill_buffer(stamp_blk, dev_get_block_size(dev),
                                   sector_offset)
         IN /\ stamp_blk' = filled.buf
            /\ store' = dev_write_block(dev, store, filled.buf, i, ok)
            /\ log' = Append(log, Call("write", i, ok))
            /\ nfail' = nfail + Failed(ok)
    /\ i' = (i + 1) % U64
    /\ UNCHANGED <<pc, requested, args, dev, sector_offset,
                   expected_sector_offset, probe_blk, out, validated>>
    /\ UNCHANGED <<valvars, utilvars>>

\* write_blocks() leaving its loop at the first failed write.
write_blocks_step_break ==
    /\ pc = "write"
    /\ i <= args.last_block
    /\ \E ok \in Outcomes :
         LET filled == fill_buffer(stamp_blk, dev_get_block_size(dev),
                                   sector_offset)
         IN /\ sector_offset' = filled.offset
            /\ stamp_blk' = filled.buf
            /\ store' = dev_write_block(dev, store, filled.buf, i, ok)
            /\ log' = Append(log, Call("write", i, ok))
            /\ nfail' = nfail + Failed(ok)
            /\ pc' = IF ok THEN pc ELSE after_write(args)
    /\ i' = (i + 1) % U64
    /\ UNCHANGED <<requested, args, dev, expected_sector_offset, probe_blk, out,
                   validated>>
    /\ UNCHANGED <<valvars, utilvars>>

\* write_blocks(): one iteration of the loop.
write_blocks_step ==
    /\ pc = "write"
    /\ i <= args.last_block
    /\ \E ok \in Outcomes :
         LET filled == fill_buffer(stamp_blk, dev_get_block_size(dev),
                                   sector_offset)
         IN /\ sector_offset' = filled.offset
            /\ stamp_blk' = filled.buf
            /\ store' = dev_write_block(dev, store, filled.buf, i, ok)
            /\ log' = Append(log, Call("write", i, ok))
            /\ nfail' = nfail + Failed(ok)
    /\ i' = (i + 1) % U64
    /\ UNCHANGED <<pc, requested, args, dev, expected_sector_offset, probe_blk, out,
                   validated>>
    /\ UNCHANGED <<valvars, utilvars>>

\* write_blocks(): the loop ends, test_write_blocks() returns to main().
write_blocks_end ==
    /\ pc = "write"
    /\ ~(i <= args.last_block)
    /\ pc' = after_write(args)
    /\ UNCHANGED <<requested, args, dev, store, i, sector_offset, expected_sector_offset,
                   stamp_blk, probe_blk, log, out, validated, nfail>>
    /\ UNCHANGED <<valvars, utilvars>>

\* The result of dev_reset() ignored.
after_reset_ignored(ok) == "read_begin"

\* assert(!dev_reset(dev)): a failed reset aborts the program.
after_reset(ok) == IF ok THEN "read_begin" ELSE "aborted"

\* main(): assert(!dev_reset(dev)).
main_reset ==
    /\ pc = "reset"
    /\ \E ok \in Outcomes :
         /\ log' = Append(log, Call("reset", 0, ok))
         /\ nfail' = nfail + Failed(ok)
         /\ pc' = after_reset(ok)
    /\ UNCHANGED <<requested, args, dev, store, i, sector_offset, expected_sector_offset,
                   stamp_blk, probe_blk, out, validated>>
    /\ UNCHANGED <<valvars, utilvars>>

\* read_blocks(): the initialisation of expected_sector_offset and i.
read_blocks_begin ==
    /\ pc = "read_begin"
    /\ expected_sector_offset' =
           shl(args.first_block, dev_get_block_order(dev))
    /\ i' = args.first_block
    /\ pc' = "read"
    /\ UNCHANGED <<requested, args, dev, store, sector_offset, stamp_blk, probe_blk,
                   log, out, validated, nfail>>
    /\ UNCHANGED <<valvars, utilvars>>

\* read_blocks() validating the buffer whether or not the read succeeded.
read_blocks_step_stale ==
    /\ pc = "read"
    /\ i <= args.last_block
    /\ \E ok \in Outcomes :
         LET blk == dev_read_block(dev, store, probe_blk, i, ok)
         IN /\ probe_blk' = blk
            /\ out' = out \o validate_block(expected_sector_offset, blk,
                                            dev_get_block_size(dev))
            /\ validated' = Append(validated, i)
            /\ log' = Append(log, Call("read", i, ok))
            /\ nfail' = nfail + Failed(ok)
    /\ expected_sector_offset' =
           (expected_sector_offset + dev_get_block_size(dev)) % U64
    /\ i' = (i + 1) % U64
    /\ UNCHANGED <<pc, requested, args, dev, store, sector_offset, stamp_blk>>
    /\ UNCHANGED <<valvars, utilvars>>

\* read_blocks() advancing the expected offset only after a good read.
read_blocks_step_skip ==
    /\ pc = "read"
    /\ i <= args.last_block
    /\ \E ok \in Outcomes :
         LET blk == dev_read_block(dev, store, probe_blk, i, ok)
         IN /\ probe_blk' = blk
            /\ out' = IF ok
                      THEN out \o validate_block(expected_sector_offset, blk,
                                                 dev_get_block_size(dev))
                      ELSE out
            /\ validated' = IF ok THEN Append(validated, i) ELSE validated
            /\ log' = Append(log, Call("read", i, ok))
            /\ nfail' = nfail + Failed(ok)
            /\ expected_sector_offset' =
                  IF ok
                  THEN (expected_sector_offset + dev_get_block_size(dev)) % U64
                  ELSE expected_sector_offset
    /\ i' = (i + 1) % U64
    /\ UNCHANGED <<pc, requested, args, dev, store, sector_offset, stamp_blk>>
    /\ UNCHANGED <<valvars, utilvars>>

\* read_blocks(): one iteration of the loop.
read_blocks_step ==
    /\ pc = "read"
    /\ i <= args.last_block
    /\ \E ok \in Outcomes :
         LET blk == dev_read_block(dev, store, probe_blk, i, ok)
         IN /\ probe_blk' = blk
            /\ out' = IF ok
                      THEN out \o validate_block(expected_sector_offset, blk,
                                                 dev_get_block_size(dev))
                      ELSE out
            /\ validated' = IF ok THEN Append(validated, i) ELSE validated
            /\ log' = Append(log, Call("read", i, ok))
            /\ nfail' = nfail + Failed(ok)
    /\ expected_sector_offset' =
           (expected_sector_offset + dev_get_block_size(dev)) % U64
    /\ i' = (i + 1) % U64
    /\ UNCHANGED <<pc, requested, args, dev, store, sector_offset, stamp_blk>>
    /\ UNCHANGED <<valvars, utilvars>>

\* read_blocks(): the loop ends, test_read_blocks() returns to main().
read_blocks_end ==
    /\ pc = "read"
    /\ ~(i <= args.last_block)
    /\ pc' = "done"
    /\ UNCHANGED <<requested, args, dev, store, i, sector_offset, expected_sector_offset,
                   stamp_blk, probe_blk, log, out, validated, nfail>>
    /\ UNCHANGED <<valvars, utilvars>>

Next ==
    \/ main_clamp
    \/ write_blocks_begin
    \/ write_blocks_step
    \/ write_blocks_end
    \/ main_reset
    \/ read_blocks_begin
    \/ read_blocks_step
    \/ read_blocks_end

Spec == Init /\ [][Next]_vars

(* ----------------- the validator on one sector, alone ------------------ *)

\* The sector offsets given to the validator.
ValOffsets == { k * SECTOR_SIZE : k \in 0..(MaxValOffsets - 1) }

\* The byte positions of the chain words of a sector.
ChainPositions ==
    { WORD_SIZE * k : k \in 1..((SECTOR_SIZE - WORD_SIZE) \div WORD_SIZE) }

\* The stamp fill_buffer generates for one sector at offset.
Stamp(offset) == fill_buffer(ZeroBuf(SECTOR_SIZE), SECTOR_SIZE, offset).buf

\* A value that differs from word w.
Flip(w) == (w + 1) % U64

Max(S) == CHOOSE m \in S : \A x \in S : x <= m

\* A sector as fill_buffer stamped it for offset vstamp, read back at the
\* expected offset vexpected: its own sector, or the one before it.
InitV ==
    /\ vpc = "read"
    /\ vexpected \in ValOffsets
    /\ vstamp \in {vexpected, (vexpected + SECTOR_SIZE) % U64}
    /\ vsector = Stamp(vstamp)
    /\ vcorrupt = {}
    /\ vout = [diagnosis |-> "none", lines |-> << >>]
    /\ pc = "off"
    /\ requested = [debug |-> FALSE, first_block |-> 0, last_block |-> 0,
                    test_write |-> FALSE, test_read |-> FALSE]
    /\ args = requested
    /\ dev = [kind |-> "none", block_order |-> 9, size_byte |-> SECTOR_SIZE,
              real_size_byte |-> SECTOR_SIZE]
    /\ store = << >>
    /\ i = 0
    /\ sector_offset = 0
    /\ expected_sector_offset = 0
    /\ stamp_blk = << >>
    /\ probe_blk = << >>
    /\ log = << >>
    /\ out = << >>
    /\ validated = << >>
    /\ nfail = 0
    /\ UtilOff

\* The medium changes one chain word of the sector (positions are taken in
\* ascending order; at most TOLERANCE + 1 words change).
corrupt_word ==
    /\ vpc = "read"
    /\ 0 \notin vcorrupt
    /\ Cardinality(vcorrupt) < TOLERANCE + 1
    /\ \E p \in ChainPositions :
         /\ IF vcorrupt = {} THEN TRUE ELSE p > Max(vcorrupt)
         /\ vsector' = memmove(vsector, p, Flip(load(vsector, p)))
         /\ vcorrupt' = vcorrupt \cup {p}
    /\ UNCHANGED <<vpc, vstamp, vexpected, vout>>
    /\ UNCHANGED <<mainvars, utilvars>>

\* The medium changes the offset word of the sector and leaves its chain.
corrupt_offset ==
    /\ vpc = "read"
    /\ vcorrupt = {}
    /\ \E v \in {vexpected, (vexpected + SECTOR_SIZE) % U64} :
         /\ v # load(vsector, 0)
         /\ vsector' = memmove(vsector, 0, v)
    /\ vcorrupt' = {0}
    /\ UNCHANGED <<vpc, vstamp, vexpected, vout>>
    /\ UNCHANGED <<mainvars, utilvars>>

\* validate_sector(vexpected, vsector)
validate ==
    /\ vpc = "read"
    /\ vout' = validate_sector(vexpected, vsector, 0)
    /\ vpc' = "validated"
    /\ UNCHANGED <<vstamp, vsector, vexpected, vcorrupt>>
    /\ UNCHANGED <<mainvars, utilvars>>

NextV ==
    \/ corrupt_word
    \/ corrupt_offset
    \/ validate

SpecV == InitV /\ [][NextV]_vars

(* ------------------------ fill_buffer taken alone ----------------------- *)

\* Largest buffer handed to fill_buffer, in sectors.
MaxFillSectors == 3

\* Number of calls that thread the returned offset into the next call.
MaxFillCalls == 2

\* Buffer sizes: positive multiples of SECTOR_SIZE, as fill_buffer asserts.
FillSizes == { k * SECTOR_SIZE : k \in 1..MaxFillSectors }

\* Starting offsets: small ones, unaligned ones, and ones whose sectors run
\* over the end of the uint64_t range.
FillOffsets == {0, WORD_SIZE, SECTOR_SIZE, 1000,
                U64 - 4 * SECTOR_SIZE, U64 - SECTOR_SIZE, U64 - WORD_SIZE}

\* What the buffer holds before the call: one word all over.
StaleBuf(size, w) == [k \in 1..(size \div WORD_SIZE) |-> w]

InitF ==
    /\ fpc = "call"
    /\ fsize \in FillSizes
    /\ foffset \in FillOffsets
    /\ fbuf \in {StaleBuf(fsize, w) : w \in {0, 1, U64 - 1}}
    /\ fret = 0
    /\ fcalls = 0
    /\ SleepOff /\ NameOff /\ LsOff
    /\ pc = "off"
    /\ requested = [debug |-> FALSE, first_block |-> 0, last_block |-> 0,
                    test_write |-> FALSE, test_read |-> FALSE]
    /\ args = requested
    /\ dev = [kind |-> "none", block_order |-> 9, size_byte |-> SECTOR_SIZE,
              real_size_byte |-> SECTOR_SIZE]
    /\ store = << >>
    /\ i = 0
    /\ sector_offset = 0
    /\ expected_sector_offset = 0
    /\ stamp_blk = << >>
    /\ probe_blk = << >>
    /\ log = << >>
    /\ out = << >>
    /\ validated = << >>
    /\ nfail = 0
    /\ vpc = "off"
    /\ vstamp = 0
    /\ vsector = << >>
    /\ vexpected = 0
    /\ vcorrupt = {}
    /\ vout = [diagnosis |-> "none", lines |-> << >>]

\* sector_offset = fill_buffer(buf, size, sector_offset): one whole call.
fill_call ==
    /\ fpc = "call"
    /\ LET r == fill_buffer(fbuf, fsize, foffset)
       IN /\ fbuf' = r.buf
          /\ fret' = r.offset
    /\ fpc' = "returned"
    /\ fcalls' = fcalls + 1
    /\ UNCHANGED <<fsize, foffset>>
    /\ UNCHANGED <<mainvars, valvars, sleepvars, namevars, lsvars>>

\* The caller hands the returned offset to the next call over the same
\* buffer, as write_blocks does for the next block.
fill_thread ==
    /\ fpc = "returned"
    /\ fcalls < MaxFillCalls
    /\ foffset' = fret
    /\ fpc' = "call"
    /\ UNCHANGED <<fbuf, fsize, fret, fcalls>>
    /\ UNCHANGED <<mainvars, valvars, sleepvars, namevars, lsvars>>

NextF ==
    \/ fill_call
    \/ fill_thread

SpecF == InitF /\ [][NextF]_vars

(* ------------------------- utils.c: file names -------------------------- *)

\* Width of long, scaled down from 64 bits as U64 is.
LONG_BITS == 8

LONG_MAX == pow2(LONG_BITS - 1) - 1

LONG_MIN == -pow2(LONG_BITS - 1)

\* What a two's complement machine leaves in a long after an overflow.
wrap_long(x) == ((x - LONG_MIN) % pow2(LONG_BITS)) + LONG_MIN

\* What signed overflow, undefined in C, does in the builds at hand: the
\* result wraps, or the operation traps (-ftrapv, sanitizers).
OverflowOutcomes == {"wrap", "trap"}

\* A C string is the sequence of its characters; NUL is what is read at the
\* position of the terminator.
NUL == ""

DigitChars == <<"0", "1", "2", "3", "4", "5", "6", "7", "8", "9">>

\* p[k] for a string p, k counted from 0.
char_at(filename, k) ==
    IF k < Len(filename) THEN filename[k + 1] ELSE NUL

isdigit(c) == \E d \in 1..10 : DigitChars[d] = c

\* *p - '0'
digit_value(c) == (CHOOSE d \in 1..10 : DigitChars[d] = c) - 1

\* do { p++; } while (isdigit(*p));
RECURSIVE skip_digits(_, _)
skip_digits(filename, p) ==
    IF isdigit(char_at(filename, p + 1))
    THEN skip_digits(filename, p + 1)
    ELSE p + 1

\* is_my_file for a filename that is not NULL (readdir and
\* full_fn_from_number never hand over NULL).
is_my_file(filename) ==
    IF ~isdigit(char_at(filename, 0))
    THEN FALSE
    ELSE LET p == skip_digits(filename, 0)
         IN /\ char_at(filename, p) = "."
            /\ char_at(filename, p + 1) = "h"
            /\ char_at(filename, p + 2) = "2"
            /\ char_at(filename, p + 3) = "w"
            /\ char_at(filename, p + 4) = NUL

\* The decimal digits of n >= 0, as %li prints them.
RECURSIVE digits_of(_)
digits_of(n) ==
    IF n < 10
    THEN <<DigitChars[n + 1]>>
    ELSE digits_of(n \div 10) \o <<DigitChars[(n % 10) + 1]>>

\* %li
format_li(n) == IF n < 0 THEN <<"-">> \o digits_of(-n) ELSE digits_of(n)

H2W == <<".", "h", "2", "w">>

\* asprintf(&str, "%s/%li.h2w", path, num1); *filename = str + strlen(path)
\* + 1: the name handed back, num1 being the value of num + 1.
full_fn_from_number(path, num1) ==
    LET str == path \o <<"/">> \o format_li(num1) \o H2W
    IN SubSeq(str, Len(path) + 2, Len(str))

\* do { num = num * 10 + (*p - '0'); p++; } while (isdigit(*p)); in the
\* integers: the value num would have were long wide enough.
RECURSIVE accumulate(_, _, _)
accumulate(filename, p, num) ==
    LET n == num * 10 + digit_value(char_at(filename, p))
    IN IF isdigit(char_at(filename, p + 1))
       THEN accumulate(filename, p + 1, n)
       ELSE n

\* The loop of number_from_filename overflows long. (num only grows, so the
\* loop overflows exactly when its last value does.)
number_overflows(filename) == accumulate(filename, 0, 0) > LONG_MAX

\* number_from_filename where arithmetic wraps: wrapping at every step of the
\* loop gives the wrapped last value.
number_from_filename(filename) ==
    wrap_long(wrap_long(accumulate(filename, 0, 0)) - 1)

\* Directories the name is made in.
NamePaths == { <<".">>, <<"/", "m", "n", "t">> }

\* The number a name not made by full_fn_from_number stands for: none.
NoNum == -1

\* Characters a name of some other program is made of.
NameChars == {"0", "1", "2", "9", ".", "h", "w", "x", "-"}

\* The names of the files number 0, 8 and 98.
BaseNames == { full_fn_from_number(<<".">>, n + 1) : n \in {0, 8, 98} }

\* Names of other programs' files: a name of ours with one character
\* replaced, removed or added.
ForeignNames ==
    UNION { { [b EXCEPT ![k] = c] : k \in 1..Len(b), c \in NameChars }
            \cup { SubSeq(b, 1, k - 1) \o SubSeq(b, k + 1, Len(b)) :
                     k \in 1..Len(b) }
            \cup { SubSeq(b, 1, k) \o <<c>> \o SubSeq(b, k + 1, Len(b)) :
                     k \in 0..Len(b), c \in NameChars }
          : b \in BaseNames }

\* Everything but the file-name functions is idle.
OnlyNames ==
    /\ FillOff /\ SleepOff /\ LsOff
    /\ pc = "off"
    /\ requested = [debug |-> FALSE, first_block |-> 0, last_block |-> 0,
                    test_write |-> FALSE, test_read |-> FALSE]
    /\ args = requested
    /\ dev = [kind |-> "none", block_order |-> 9, size_byte |-> SECTOR_SIZE,
              real_size_byte |-> SECTOR_SIZE]
    /\ store = << >>
    /\ i = 0
    /\ sector_offset = 0
    /\ expected_sector_offset = 0
    /\ stamp_blk = << >>
    /\ probe_blk = << >>
    /\ log = << >>
    /\ out = << >>
    /\ validated = << >>
    /\ nfail = 0
    /\ vpc = "off"
    /\ vstamp = 0
    /\ vsector = << >>
    /\ vexpected = 0
    /\ vcorrupt = {}
    /\ vout = [diagnosis |-> "none", lines |-> << >>]

\* Either a number is about to be turned into a name, or a name was found
\* in a directory.
InitN ==
    /\ \/ /\ npc = "format"
          /\ nnum \in 0..LONG_MAX
          /\ nname = << >>
       \/ /\ npc = "named"
          /\ nnum = NoNum
          /\ nname \in ForeignNames
    /\ naccepted = FALSE
    /\ nback = 0
    /\ OnlyNames

\* full_fn_from_number(&filename, path, nnum)
name_format ==
    /\ npc = "format"
    /\ \E path \in NamePaths, o \in OverflowOutcomes :
          IF nnum + 1 > LONG_MAX /\ o = "trap"
          THEN /\ npc' = "aborted"
               /\ nname' = nname
          ELSE /\ npc' = "named"
               /\ nname' = full_fn_from_number(path, wrap_long(nnum + 1))
    /\ UNCHANGED <<nnum, naccepted, nback>>
    /\ UNCHANGED <<mainvars, valvars, fillvars, sleepvars, lsvars>>

\* is_my_file(filename)
name_check ==
    /\ npc = "named"
    /\ naccepted' = is_my_file(nname)
    /\ npc' = "checked"
    /\ UNCHANGED <<nnum, nname, nback>>
    /\ UNCHANGED <<mainvars, valvars, fillvars, sleepvars, lsvars>>

\* number_from_filename(filename)
name_parse ==
    /\ npc = "checked"
    /\ \E o \in OverflowOutcomes :
          IF ~is_my_file(nname)
          THEN /\ npc' = "aborted"
               /\ nback' = nback
          ELSE IF number_overflows(nname) /\ o = "trap"
          THEN /\ npc' = "aborted"
               /\ nback' = nback
          ELSE /\ npc' = "parsed"
               /\ nback' = number_from_filename(nname)
    /\ UNCHANGED <<nnum, nname, naccepted>>
    /\ UNCHANGED <<mainvars, valvars, fillvars, sleepvars, lsvars>>

NextN ==
    \/ name_format
    \/ name_check
    \/ name_parse

SpecN == InitN /\ [][NextN]_vars

(* ------------------------- utils.c: ls_my_files ------------------------- *)

\* Width of int, scaled down from 32 bits as long is from 64.
INT_BITS == 4

\* What the conversion of a long to int leaves where it does not fit (the
\* low bits, as gcc and clang define it).
wrap_int(x) ==
    ((x + pow2(INT_BITS - 1)) % pow2(INT_BITS)) - pow2(INT_BITS - 1)

\* Most entries of a listed directory.
MaxEntries == 3

\* The numbers of the files a listed directory may hold; none is so long
\* that number_from_filename overflows.
LsNumbers == {0, 1, 8, 9}

\* The names a listed directory may hold: files of ours, a file of ours
\* with a leading zero, and entries that are not ours.
DirNames ==
    { full_fn_from_number(<<".">>, n + 1) : n \in LsNumbers }
    \cup { <<"0", "2">> \o H2W, <<".">>, <<"x">> \o H2W, <<"1", ".", "h", "2">> }

\* What readdir hands over, in its order: distinct names.
Directories ==
    { d \in UNION { [1..n -> DirNames] : n \in 0..MaxEntries } :
        \A j, k \in 1..Len(d) : j # k => d[j] # d[k] }

\* The limits ls_my_files is called with.
LsLimits == {0, 1, 9, LONG_MAX}

\* What a slot of the array holds between malloc and its first write; no
\* long has this value.
Uninit == LONG_MIN - 1

\* __ls_my_files from the k-th entry of the directory on, *pcount being
\* pcount at the call. Gives the array (indexed from 0), *pindex and *pcount
\* at the return, and the indexes written, in the order of the writes.
RECURSIVE __ls_my_files(_, _, _, _, _)
__ls_my_files(dir, k, start_at, end_at, pcount) ==
    IF k > Len(dir)
    THEN [ret |-> [j \in 0..pcount |-> IF j = pcount THEN -1 ELSE Uninit],
          pindex |-> pcount - 1,
          pcount |-> pcount,
          written |-> << >>]
    ELSE IF ~is_my_file(dir[k])
    THEN __ls_my_files(dir, k + 1, start_at, end_at, pcount)
    ELSE LET number == number_from_filename(dir[k])
         IN IF number < start_at \/ end_at < number
            THEN __ls_my_files(dir, k + 1, start_at, end_at, pcount)
            ELSE LET r == __ls_my_files(dir, k + 1, start_at, end_at,
                                        pcount + 1)
                     my_index == r.pindex
                 IN [ret |-> [r.ret EXCEPT ![my_index] = number],
                     pindex |-> my_index - 1,
                     pcount |-> r.pcount,
                     written |-> Append(r.written, my_index)]

\* return *(const long *)p1 - *(const long *)p2; as an int
cmpintp(p1, p2) == wrap_int(p1 - p2)

\* The orders of the first my_count slots that leave no neighbours the
\* comparison calls out of order.
Settled(ret, my_count) ==
    { q \in Permutations(0..(my_count - 1)) :
        \A j \in 0..(my_count - 2) : cmpintp(ret[q[j]], ret[q[j + 1]]) <= 0 }

\* qsort(ret, my_count, sizeof(*ret), cmpintp): any order the comparison is
\* content with; any order at all where it is content with none.
qsort(ret, my_count) ==
    LET orders == IF Settled(ret, my_count) # {}
                  THEN Settled(ret, my_count)
                  ELSE Permutations(0..(my_count - 1))
    IN { [j \in DOMAIN ret |-> IF j < my_count THEN ret[q[j]] ELSE ret[j]] :
           q \in orders }

InitL ==
    /\ lpc = "call"
    /\ ldir \in Directories
    /\ lstart_at \in LsLimits
    /\ lend_at \in LsLimits
    /\ lstart_at <= lend_at
    /\ lret = << >>
    /\ lwritten = << >>
    /\ FillOff /\ SleepOff /\ NameOff
    /\ pc = "off"
    /\ requested = [debug |-> FALSE, first_block |-> 0, last_block |-> 0,
                    test_write |-> FALSE, test_read |-> FALSE]
    /\ args = requested
    /\ dev = [kind |-> "none", block_order |-> 9, size_byte |-> SECTOR_SIZE,
              real_size_byte |-> SECTOR_SIZE]
    /\ store = << >>
    /\ i = 0
    /\ sector_offset = 0
    /\ expected_sector_offset = 0
    /\ stamp_blk = << >>
    /\ probe_blk = << >>
    /\ log = << >>
    /\ out = << >>
    /\ validated = << >>
    /\ nfail = 0
    /\ vpc = "off"
    /\ vstamp = 0
    /\ vsector = << >>
    /\ vexpected = 0
    /\ vcorrupt = {}
    /\ vout = [diagnosis |-> "none", lines |-> << >>]

\* ls_my_files(path, start_at, end_at), the directory opening.
ls_my_files ==
    /\ lpc = "call"
    /\ LET r == __ls_my_files(ldir, 1, lstart_at, lend_at, 0)
       IN /\ lwritten' = r.written
          /\ IF r.pindex # -1
             THEN /\ lpc' = "aborted"
                  /\ lret' = r.ret
             ELSE /\ lpc' = "returned"
                  /\ lret' \in qsort(r.ret, r.pcount)
    /\ UNCHANGED <<ldir, lstart_at, lend_at>>
    /\ UNCHANGED <<mainvars, valvars, fillvars, sleepvars, namevars>>

NextL ==
    \/ ls_my_files

SpecL == InitL /\ [][NextL]_vars

(* --------------------------- utils.c: msleep ---------------------------- *)

\* wait_ms is a double; here it is counted in thousandths of a millisecond,
\* so that fractions of a millisecond exist among the integers.
PER_MS == 1000

\* The literal 1000 of msleep: milliseconds in a second.
MS_PER_SEC == 1000

\* The literal 1000000 of msleep: nanoseconds in a millisecond.
NS_PER_MS == 1000000

\* The literal 1000000000 of msleep: nanoseconds in a second.
NS_PER_SEC == 1000000000

\* Longest wait asked for, in quarters of a second.
MaxWaitQuarters == 12

\* Most interruptions of one sleep by a signal.
MaxEintr == 2

\* The waits asked for: the shortest one, quarters of a second, and the
\* shortest one over a second.
Waits ==
    {1, MS_PER_SEC * PER_MS + 1}
    \cup { k * 250 * PER_MS : k \in 1..MaxWaitQuarters }

\* What clock_gettime(CLOCK_MONOTONIC) may answer.
Clocks == [tv_sec : {0, 7}, tv_nsec : {0, 1, NS_PER_SEC \div 2, NS_PER_SEC - 1}]

InitS ==
    /\ spc = "enter"
    /\ wait_ms \in Waits
    /\ req = [tv_sec |-> 0, tv_nsec |-> 0]
    /\ seintr = 0
    /\ FillOff /\ NameOff /\ LsOff
    /\ pc = "off"
    /\ requested = [debug |-> FALSE, first_block |-> 0, last_block |-> 0,
                    test_write |-> FALSE, test_read |-> FALSE]
    /\ args = requested
    /\ dev = [kind |-> "none", block_order |-> 9, size_byte |-> SECTOR_SIZE,
              real_size_byte |-> SECTOR_SIZE]
    /\ store = << >>
    /\ i = 0
    /\ sector_offset = 0
    /\ expected_sector_offset = 0
    /\ stamp_blk = << >>
    /\ probe_blk = << >>
    /\ log = << >>
    /\ out = << >>
    /\ validated = << >>
    /\ nfail = 0
    /\ vpc = "off"
    /\ vstamp = 0
    /\ vsector = << >>
    /\ vexpected = 0
    /\ vcorrupt = {}
    /\ vout = [diagnosis |-> "none", lines |-> << >>]

\* if (req.tv_nsec >= 1000000000) { ldiv ... }
round_up(r) ==
    IF r.tv_nsec >= NS_PER_SEC
    THEN [tv_sec |-> r.tv_sec + (r.tv_nsec \div NS_PER_SEC),
          tv_nsec |-> r.tv_nsec % NS_PER_SEC]
    ELSE r

\* msleep(wait_ms) from clock_gettime to the rounding of req.
msleep_enter ==
    /\ spc = "enter"
    /\ \E now \in Clocks :
          IF wait_ms > MS_PER_SEC * PER_MS
          THEN LET sec == wait_ms \div (MS_PER_SEC * PER_MS)
                   rest == wait_ms - sec * MS_PER_SEC * PER_MS
               IN /\ wait_ms' = rest
                  /\ IF ~(rest > 0)
                     THEN /\ spc' = "aborted"
                          /\ req' = now
                     ELSE /\ spc' = "sleep"
                          /\ req' = round_up(
                                 [tv_sec |-> now.tv_sec + sec,
                                  tv_nsec |-> now.tv_nsec
                                      + rest * (NS_PER_MS \div PER_MS)])
          ELSE /\ wait_ms' = wait_ms
               /\ spc' = "sleep"
               /\ req' = round_up(
                      [tv_sec |-> now.tv_sec,
                       tv_nsec |-> now.tv_nsec
                           + wait_ms * (NS_PER_MS \div PER_MS)])
    /\ UNCHANGED seintr
    /\ UNCHANGED <<mainvars, valvars, fillvars, namevars, lsvars>>

\* One turn of do { ret = clock_nanosleep(...); } while (ret == EINTR);
\* with assert(ret == 0) after it. With a req in range the call answers 0
\* or EINTR.
msleep_sleep ==
    /\ spc = "sleep"
    /\ \E ret \in {"0", "EINTR"} :
          IF ret = "EINTR"
          THEN /\ seintr < MaxEintr
               /\ seintr' = seintr + 1
               /\ spc' = spc
          ELSE /\ spc' = "returned"
               /\ seintr' = seintr
    /\ UNCHANGED <<wait_ms, req>>
    /\ UNCHANGED <<mainvars, valvars, fillvars, namevars, lsvars>>

NextS ==
    \/ msleep_enter
    \/ msleep_sleep

SpecS == InitS /\ [][NextS]_vars

(* ============================ properties =============================== *)

\* Number of whole blocks of the drive.
block_count == shr(dev_get_size_byte(dev), dev_get_block_order(dev))

\* The positions of the log that hold a call of op.
CallsOf(op) == { k \in 1..Len(log) : log[k].op = op }

\* The range has been clamped: args holds what the passes are given.
Clamped == pc \notin {"clamp", "off"}

\* The write pass has returned.
WritePassOver ==
    args.test_write /\ pc \in {"reset", "read_begin", "read", "done", "aborted"}

(* C1: whatever range is requested, no dev_write_block or dev_read_block   *)
(* call is issued with a block index at or beyond block_count: the scan    *)
(* goes through block block_count - 1 and no further.                      *)
C1_RangeClamping ==
    \A k \in CallsOf("write") \cup CallsOf("read") : log[k].blk < block_count

(* C2: when both passes are enabled, every write of the range is issued    *)
(* before dev_reset is called, a read is issued only after dev_reset       *)
(* returned success, and no write follows the reset or a read.             *)
C2_PassOrdering ==
    (args.test_write /\ args.test_read) =>
        \A k \in 1..Len(log) :
            /\ log[k].op = "write" =>
                   \A j \in 1..(k - 1) : log[j].op = "write"
            /\ log[k].op = "reset" =>
                   { log[j].blk : j \in 1..(k - 1) }
                       = args.first_block..args.last_block
            /\ log[k].op = "read" =>
                   \E j \in 1..(k - 1) : log[j].op = "reset" /\ log[j].ok

C2_Witness ==
    /\ pc = "done"
    /\ args.test_write /\ args.test_read
    /\ args.first_block < args.last_block
    /\ \E k \in CallsOf("write") : ~log[k].ok
    /\ CallsOf("read") # {}

\* The drive of C3: 512-byte blocks, 4 advertised, 2 real, every call
\* succeeding, blocks 0..3 written and read back.
C3_Scenario ==
    /\ dev_get_block_order(dev) = 9
    /\ dev_get_size_byte(dev) = 4 * SECTOR_SIZE
    /\ dev.real_size_byte = 2 * SECTOR_SIZE
    /\ Clamped
    /\ args.first_block = 0 /\ args.last_block = 3
    /\ args.test_write /\ args.test_read
    /\ nfail = 0

(* C3: on the drive with 2 real and 4 advertised blocks of 512 bytes,      *)
(* writing blocks 0..3, resetting and reading them back reports            *)
(* "Overwritten sector 0x000, found 0x400" for block 0 and "Overwritten    *)
(* sector 0x200, found 0x600" for block 1, and nothing else.               *)
C3_Wraparound ==
    (C3_Scenario /\ pc = "done") =>
        out = << Line("Overwritten sector", 0, 1024),
                 Line("Overwritten sector", 512, 1536) >>

C3_Witness ==
    /\ C3_Scenario
    /\ pc = "done"
    /\ Len(log) = 9
    /\ Len(out) = 2

(* C4: when dev_reset fails after the write pass the run is aborted: no    *)
(* block is read and no sector is validated.                               *)
C4_ResetFatal ==
    (\E k \in CallsOf("reset") : ~log[k].ok) =>
        /\ pc = "aborted"
        /\ CallsOf("read") = {}
        /\ validated = << >>
        /\ out = << >>

C4_Witness ==
    /\ pc = "aborted"
    /\ CallsOf("write") # {}
    /\ \E k \in CallsOf("reset") : ~log[k].ok

\* The sector is as fill_buffer stamped it.
Pristine == vcorrupt = {}

\* The number of chain words from byte position p on that differ from
\* the chain that continues from rn, counted to the end of the sector.
RECURSIVE mismatches_from(_, _, _)
mismatches_from(sector, p, rn) ==
    IF p < SECTOR_SIZE
    THEN LET rn2 == random_number(rn)
         IN (IF rn2 # load(sector, p) THEN 1 ELSE 0)
                + mismatches_from(sector, p + WORD_SIZE, rn2)
    ELSE 0

\* The mismatches of the whole chain of the sector against the chain
\* re-derived from the offset found in it.
FullMismatches(sector) == mismatches_from(sector, WORD_SIZE, load(sector, 0))

\* The matrix of diagnoses over (found = expected) and the mismatch count.
Matrix(same, mismatches) ==
    IF same
    THEN IF mismatches = 0 THEN "GOOD sector"
         ELSE IF mismatches <= TOLERANCE THEN "Changed sector"
         ELSE "BAD matching sector"
    ELSE IF mismatches = 0 THEN "Overwritten sector"
         ELSE IF mismatches <= TOLERANCE
         THEN "Overwritten and changed sector"
         ELSE "BAD sector"

(* C5: a sector stamped by fill_buffer for offset o and validated          *)
(* unchanged against expected offset o has found offset o and no           *)
(* mismatching chain word: it is Good and nothing is printed.              *)
C5_RoundTrip ==
    (Pristine /\ vpc = "validated" /\ vstamp = vexpected) =>
        /\ load(vsector, 0) = vexpected
        /\ FullMismatches(vsector) = 0
        /\ vout = [diagnosis |-> "GOOD sector", lines |-> << >>]

C5_Witness ==
    /\ Pristine
    /\ vpc = "validated"
    /\ vstamp = vexpected
    /\ vout.diagnosis = "GOOD sector"

\* The offset word is the expected one and only chain words were changed.
ChainCorrupted(n) ==
    /\ vpc = "validated"
    /\ vstamp = vexpected
    /\ 0 \notin vcorrupt
    /\ Cardinality(vcorrupt) = n

(* C6: with the embedded offset equal to the expected one, exactly         *)
(* TOLERANCE corrupted chain words, wherever they are, give Changed, and   *)
(* exactly TOLERANCE + 1 give Bad-matching.                                *)
C6_ToleranceBoundary ==
    /\ ChainCorrupted(TOLERANCE) => vout.diagnosis = "Changed sector"
    /\ ChainCorrupted(TOLERANCE + 1) => vout.diagnosis = "BAD matching sector"

C6_Witness ==
    /\ ChainCorrupted(TOLERANCE + 1)
    /\ vcorrupt = {8, 256, 504}
    /\ vout.diagnosis = "BAD matching sector"

(* C7: the diagnosis is the matrix entry for (found = expected) and the    *)
(* number of mismatches of the whole 63-word chain re-derived from the     *)
(* offset found in the sector, although counting stops past TOLERANCE.     *)
C7_Matrix ==
    vpc = "validated" =>
        vout.diagnosis = Matrix(load(vsector, 0) = vexpected,
                                FullMismatches(vsector))

C7_Witness ==
    /\ vpc = "validated"
    /\ FullMismatches(vsector) > TOLERANCE + 1
    /\ vout.diagnosis = "BAD sector"

\* The lines are one line that carries the expected offset, and the found
\* offset when with_found.
OneLine(lines, with_found) ==
    /\ Len(lines) = 1
    /\ lines[1].expected = vexpected
    /\ lines[1].found = IF with_found THEN load(vsector, 0) ELSE NoFound

(* C8: no line is printed for Good, Bad and Bad-matching, and exactly one  *)
(* for each of Changed, Overwritten and Overwritten-and-changed, with the  *)
(* expected offset and, for the two Overwritten ones, the found offset.    *)
C8_Emission ==
    vpc = "validated" =>
        /\ vout.diagnosis \in {"GOOD sector", "BAD sector",
                               "BAD matching sector"}
               => vout.lines = << >>
        /\ vout.diagnosis = "Changed sector" => OneLine(vout.lines, FALSE)
        /\ vout.diagnosis \in {"Overwritten sector",
                               "Overwritten and changed sector"}
               => OneLine(vout.lines, TRUE)

(* C8, amended: no line is printed for Good and Bad, and exactly one for   *)
(* each of Changed, Bad-matching, Overwritten and Overwritten-and-changed, *)
(* with the expected offset and, for the two Overwritten ones, the found   *)
(* offset.                                                                 *)
C8_EmissionAmended ==
    vpc = "validated" =>
        /\ vout.diagnosis \in {"GOOD sector", "BAD sector"}
               => vout.lines = << >>
        /\ vout.diagnosis \in {"Changed sector", "BAD matching sector"}
               => OneLine(vout.lines, FALSE)
        /\ vout.diagnosis \in {"Overwritten sector",
                               "Overwritten and changed sector"}
               => OneLine(vout.lines, TRUE)

C8_Witness ==
    /\ vpc = "validated"
    /\ vout.diagnosis = "BAD matching sector"
    /\ Len(vout.lines) = 1

\* Every block after a failed write has a later write call.
C9_AllAttempted ==
    WritePassOver =>
        \A k \in CallsOf("write") :
            ~log[k].ok =>
                \A b \in (log[k].blk + 1)..args.last_block :
                    \E j \in CallsOf("write") : j > k /\ log[j].blk = b

\* A step that is a failed write leaves the stored content as it was and
\* the pass running.
C9_FailureFrame ==
    (pc = "write" /\ Len(log') = Len(log) + 1 /\ ~log'[Len(log')].ok) =>
        /\ store' = store
        /\ pc' = "write"

(* C9: after a failed write of block k the write pass still writes every   *)
(* block k+1..last_block, and the failure leaves the content of the        *)
(* blocks written before unchanged.                                        *)
C9_WriteFailureResilience == [][C9_AllAttempted' /\ C9_FailureFrame]_vars

C9_Witness ==
    /\ WritePassOver
    /\ \E k \in CallsOf("write") :
         /\ ~log[k].ok
         /\ log[k].blk < args.last_block
         /\ k > 1 /\ log[k - 1].ok
         /\ k < Len(log) /\ log[k + 1].op = "write" /\ log[k + 1].ok

(* C10: in the read pass the expected offset of the first sector of a      *)
(* block is the block index shifted left by block_order, one block size    *)
(* past that of the block before, whichever earlier reads failed.          *)
C10_OffsetMonotonicity ==
    pc = "read" =>
        /\ expected_sector_offset = shl(i, dev_get_block_order(dev))
        /\ i > args.first_block =>
               expected_sector_offset =
                   (shl(i - 1, dev_get_block_order(dev))
                       + dev_get_block_size(dev)) % U64

C10_Witness ==
    /\ pc = "read"
    /\ i > args.first_block + 1
    /\ i <= args.last_block
    /\ \E k \in CallsOf("read") : ~log[k].ok
    /\ expected_sector_offset = shl(i, dev_get_block_order(dev))

\* The read pass has returned.
ReadPassOver == args.test_read /\ pc = "done"

(* C11: when dev_read_block fails for block k no sector of block k is      *)
(* given to the validator and nothing is printed for it, and every block   *)
(* k+1..last_block is still read and, when its read succeeds, validated.   *)
C11_ReadFailure ==
    /\ \A k \in CallsOf("read") :
         /\ ~log[k].ok =>
                \A v \in 1..Len(validated) : validated[v] # log[k].blk
         /\ (~log[k].ok /\ ReadPassOver) =>
                \A b \in (log[k].blk + 1)..args.last_block :
                    \E j \in CallsOf("read") :
                        /\ j > k
                        /\ log[j].blk = b
                        /\ log[j].ok =>
                               \E v \in 1..Len(validated) : validated[v] = b
    /\ (CallsOf("read") # {} /\ \A k \in CallsOf("read") : ~log[k].ok)
           => out = << >>

C11_Witness ==
    /\ ReadPassOver
    /\ \E k \in CallsOf("read") :
         /\ ~log[k].ok
         /\ k > 1 /\ log[k - 1].op = "read" /\ log[k - 1].ok
         /\ k < Len(log) /\ log[k + 1].ok
         /\ log[k + 1].blk \in { validated[v] : v \in 1..Len(validated) }

(* C12: the range given to the passes still has first_block <= last_block, *)
(* each bound is the requested one or a smaller one, and the run goes on   *)
(* to its passes.                                                          *)
C12_RangeInvariant ==
    /\ args.first_block <= args.last_block
    /\ args.first_block <= requested.first_block
    /\ args.last_block <= requested.last_block
    /\ Clamped =>
           /\ pc # "aborted" \/ CallsOf("reset") # {}
           /\ args.first_block
                  = clamp(requested.first_block, very_last_block_of(dev))
           /\ args.last_block
                  = clamp(requested.last_block, very_last_block_of(dev))

C12_Witness ==
    /\ pc = "write"
    /\ args.first_block < requested.first_block
    /\ args.last_block < requested.last_block
    /\ requested.last_block # DEFAULT_LAST_BLOCK

(* C13: the probe runs on the emulated drive (a file device) exactly when  *)
(* a debugging option was given, and on the real block device otherwise.   *)
C13_DeviceSelection ==
    pc # "off" => (requested.debug <=> dev.kind = "file device")

\* The content of the drive before the run.
InitialStore ==
    [s \in DOMAIN store |-> ZeroBuf(dev_get_block_size(dev))]

(* C14: with --do-not-write no block is written and the stored content    *)
(* stays as it was, with --do-not-read no block is read, and the drive is  *)
(* reset only when both passes are enabled.                                *)
C14_Frame ==
    pc # "off" =>
        /\ ~args.test_write =>
               CallsOf("write") = {} /\ store = InitialStore
        /\ ~args.test_read => CallsOf("read") = {}
        /\ CallsOf("reset") # {} => args.test_write /\ args.test_read

C14_Witness ==
    /\ pc = "done"
    /\ ~args.test_write
    /\ args.test_read
    /\ Len(log) > 1
    /\ CallsOf("reset") = {}

\* Sector j of the block buffer holds the stamp of offset: the offset
\* word and the whole chain derived from it.
Stamped(buf, j, offset) ==
    LET sector == SubSeq(buf, j * (SECTOR_SIZE \div WORD_SIZE) + 1,
                         (j + 1) * (SECTOR_SIZE \div WORD_SIZE))
    IN /\ load(sector, 0) = offset
       /\ FullMismatches(sector) = 0

(* C15: at the start of every iteration of the write pass the threaded     *)
(* offset is i << block_order, and the buffer given to dev_write_block     *)
(* for block i holds, in sector j, the stamp of (i << block_order) + 512j, *)
(* whichever writes failed and whatever the buffer held before.            *)
C15_Stamping ==
    pc = "write" =>
        /\ sector_offset = shl(i, dev_get_block_order(dev))
        /\ i > args.first_block =>
               /\ log[Len(log)] \in {Call("write", i - 1, TRUE),
                                     Call("write", i - 1, FALSE)}
               /\ \A j \in 0..(dev_get_block_size(dev) \div SECTOR_SIZE) - 1 :
                      Stamped(stamp_blk, j,
                              (shl(i - 1, dev_get_block_order(dev))
                                  + SECTOR_SIZE * j) % U64)

C15_Witness ==
    /\ pc = "write"
    /\ i > args.first_block + 1
    /\ dev_get_block_size(dev) = 2 * SECTOR_SIZE
    /\ \E k \in CallsOf("write") : ~log[k].ok
    /\ Stamped(stamp_blk, 1, (shl(i - 1, dev_get_block_order(dev))
                                 + SECTOR_SIZE) % U64)

\* The block indexes of the calls of op, in the order of the calls.
BlocksOf(op) ==
    LET calls == SelectSeq(log, LAMBDA c : c.op = op)
    IN [k \in 1..Len(calls) |-> calls[k].blk]

\* s is first, first + 1, ... : ascending, each index once.
Ascending(s, first) == \A k \in 1..Len(s) : s[k] = first + k - 1

Range == args.last_block - args.first_block + 1

\* Each pass walks up from first_block, no further than last_block, and
\* has visited the whole range when it returns.
C17_Traversal ==
    Clamped =>
        /\ Ascending(BlocksOf("write"), args.first_block)
        /\ Ascending(BlocksOf("read"), args.first_block)
        /\ Len(BlocksOf("write")) <= Range
        /\ Len(BlocksOf("read")) <= Range
        /\ WritePassOver => Len(BlocksOf("write")) = Range
        /\ ReadPassOver => Len(BlocksOf("read")) = Range

Terminated == pc \in {"done", "aborted"}

\* The place of main() counted from its end.
PcRank ==
    CASE pc = "clamp" -> 6
      [] pc = "write_begin" -> 5
      [] pc = "write" -> 4
      [] pc = "reset" -> 3
      [] pc = "read_begin" -> 2
      [] pc = "read" -> 1
      [] OTHER -> 0

\* A bound on the steps the run has left: the iterations left to the
\* running pass, after the places main() still has to go through.
Variant ==
    PcRank * (U64 + 1)
        + (IF pc \in {"write", "read"} THEN args.last_block + 1 - i ELSE 0)

(* C17: each pass visits every block of [first_block, last_block] once,    *)
(* in ascending order, and the run terminates, also when last_block is the *)
(* largest value the clamp can leave (the counter does not wrap): every    *)
(* step lowers a bound on the steps the run has left.                      *)
C17_TraversalTermination ==
    [][C17_Traversal' /\ Variant' < Variant /\ Variant' >= 0]_vars

C17_Witness ==
    /\ Terminated
    /\ pc = "done"
    /\ args.last_block = shr(U64 - 1, 9)
    /\ args.first_block < args.last_block
    /\ Len(BlocksOf("write")) = Range
    /\ Len(BlocksOf("read")) = Range

(* --------------------------------- C16 --------------------------------- *)

\* C16: when fill_buffer(buf, size, offset) has returned, with size a positive
\* multiple of SECTOR_SIZE, every sector s of the buffer (counted from 0)
\* begins with (offset + 512 * s) mod 2^64 and goes on with the successive
\* images of that value under random_number, whatever the buffer held
\* before, and the value returned is (offset + size) mod 2^64.
C16_FillBuffer ==
    fpc = "returned" =>
        /\ Len(fbuf) = fsize \div WORD_SIZE
        /\ \A s \in 0..((fsize \div SECTOR_SIZE) - 1) :
               Stamped(fbuf, s, (foffset + SECTOR_SIZE * s) % U64)
        /\ fret = (foffset + fsize) % U64

\* A buffer of several sectors that still held the previous fill has been
\* filled again from the returned offset, and its sectors run over the end
\* of the range.
C16_Witness ==
    /\ fpc = "returned"
    /\ fcalls = 2
    /\ fsize > SECTOR_SIZE
    /\ foffset + fsize > U64
    /\ fret = (foffset + fsize) % U64
    /\ load(fbuf, 0) = foffset
    /\ load(fbuf, fsize - SECTOR_SIZE) < foffset

(* --------------------------------- C18 --------------------------------- *)

\* The entries of the directory that are files of ours with a number within
\* the limits.
Listed ==
    { k \in 1..Len(ldir) :
        /\ \E n \in 1..(Len(ldir[k]) - Len(H2W)) :
              /\ \A j \in 1..n : isdigit(ldir[k][j])
              /\ SubSeq(ldir[k], n + 1, Len(ldir[k])) = H2W
        /\ accumulate(ldir[k], 0, 0) - 1 >= lstart_at
        /\ accumulate(ldir[k], 0, 0) - 1 <= lend_at }

\* The number of slots before the terminator.
my_count == Cardinality(DOMAIN lret) - 1

\* The recursive fill wrote every slot 0..count-1 exactly once.
FilledOnce ==
    /\ Len(lwritten) = my_count
    /\ \A j \in 0..(my_count - 1) :
          Cardinality({ w \in 1..Len(lwritten) : lwritten[w] = j }) = 1

\* The array holds the numbers of the listed entries, one per entry.
HoldsListed ==
    /\ my_count = Cardinality(Listed)
    /\ \A v \in 0..LONG_MAX :
          Cardinality({ j \in 0..(my_count - 1) : lret[j] = v })
          = Cardinality({ k \in Listed : accumulate(ldir[k], 0, 0) - 1 = v })

\* C18: whatever the directory holds and whatever start_at <= end_at are,
\* ls_my_files returns (the assertion my_index == -1 holds); the array holds
\* exactly the numbers of the entries named <digits>.h2w whose number lies
\* in [start_at, end_at], one per entry, in ascending order, with -1 after
\* them; and the fill wrote each slot 0..count-1 exactly once.
C18_Listing ==
    /\ lpc # "aborted"
    /\ lpc = "returned" =>
          /\ lret[my_count] = -1
          /\ FilledOnce
          /\ HoldsListed
          /\ \A j \in 0..(my_count - 2) : lret[j] <= lret[j + 1]

\* What does hold: all of it but the order.
C18_Collected ==
    /\ lpc # "aborted"
    /\ lpc = "returned" =>
          /\ lret[my_count] = -1
          /\ FilledOnce
          /\ HoldsListed

(* --------------------------------- C19 --------------------------------- *)

\* C19: whatever positive time msleep is asked to wait, whole multiples of
\* 1000 ms above 1000 among them, its assertions hold (what is left of
\* wait_ms after the whole seconds is > 0) and the call sleeps and returns:
\* it never aborts.
C19_MsleepAssertions == spc # "aborted"

\* What does hold: the time handed to clock_nanosleep is a well-formed
\* timespec.
C19_Normalised ==
    spc \in {"sleep", "returned"} => req.tv_nsec >= 0 /\ req.tv_nsec < NS_PER_SEC

(* --------------------------------- C20 --------------------------------- *)

\* One or more decimal digits followed by exactly ".h2w".
WellFormed(name) ==
    \E k \in 1..(Len(name) - Len(H2W)) :
        /\ \A j \in 1..k : \E d \in 1..10 : name[j] = DigitChars[d]
        /\ SubSeq(name, k + 1, Len(name)) = H2W

\* The name was made by full_fn_from_number from a number >= 0.
Made == nnum >= 0

\* C20: for every num >= 0 the name full_fn_from_number makes of it is
\* accepted by is_my_file and number_from_filename gives num back, no
\* assertion failing on the way; and whatever name is_my_file accepts is one
\* or more decimal digits followed by exactly ".h2w".
C20_RoundTrip ==
    /\ Made => npc # "aborted"
    /\ Made /\ npc \in {"checked", "parsed"} => naccepted
    /\ Made /\ npc = "parsed" => nback = nnum
    /\ npc \in {"checked", "parsed"} /\ naccepted => WellFormed(nname)

\* What does hold: the round trip of every num from 0 to LONG_MAX - 1, the
\* numbers for which num + 1 is a long.
C20_RoundTripBelowMax ==
    nnum >= 0 /\ nnum < LONG_MAX =>
        /\ npc # "aborted"
        /\ npc \in {"checked", "parsed"} => naccepted
        /\ npc = "parsed" => nback = nnum

\* What does hold: is_my_file accepts exactly the well-formed names.
C20_Acceptance ==
    npc \in {"checked", "parsed"} => (naccepted <=> WellFormed(nname))

====
